---------------------------- MODULE Spec2Model ----------------------------
(***************************************************************************)
(* A model of alphapy/features.py: the sequential-statistics functions     *)
(* (rtotal, runs, streak, zscore, runs_test), the per-column transforms    *)
(* (get_factors, get_numerical_features, get_text_features), the           *)
(* orchestrator create_features and the selector select_features.          *)
(*                                                                         *)
(* Numbers are fixed-point integers in thousandths (Milli): 1.0 is 1000.   *)
(* A data cell is a record [t, n, s]: a number, a string or a missing      *)
(* value, so that cells of every column type compare with one another.     *)
(***************************************************************************)
EXTENDS Integers, Sequences, FiniteSets, TLC

VARIABLES pc, X, specs, y_train, fi, all_features, stacked, base_features,
          err, log, args, ret, model

vars == <<pc, X, specs, y_train, fi, all_features, stacked, base_features,
          err, log, args, ret, model>>

pipeVars == <<X, specs, y_train, fi, all_features, stacked, base_features,
              err, log>>

-----------------------------------------------------------------------------
(* Values *)

Milli == 10 * 100

NaN == [t |-> "nan", n |-> 0, s |-> ""]

Num(v) == [t |-> "num", n |-> v, s |-> ""]

Str(x) == [t |-> "str", n |-> 0, s |-> x]

IsNaN(c) == c.t = "nan"

Range(f) == {f[k] : k \in DOMAIN f}

Abs(v) == IF v < 0 THEN 0 - v ELSE v

Sign(v) == IF v < 0 THEN 0 - 1 ELSE IF v > 0 THEN 1 ELSE 0

SetMax(S) == CHOOSE m \in S : \A o \in S : o <= m

SetMin(S) == CHOOSE m \in S : \A o \in S : m <= o

RECURSIVE SeqSum(_)
SeqSum(q) == IF q = <<>> THEN 0 ELSE q[1] + SeqSum(Tail(q))

RECURSIVE SqrtBisect(_, _, _)
SqrtBisect(v, lo, hi) ==
    IF lo >= hi THEN lo
    ELSE LET mid == (lo + hi + 1) \div 2 IN
         IF mid * mid <= v THEN SqrtBisect(v, mid, hi) ELSE SqrtBisect(v, lo, mid - 1)

(* floor of the square root of a non-negative integer (math.sqrt, np.std) *)
Isqrt(v) == SqrtBisect(v, 0, IF v < 46340 THEN v ELSE 46340)

RECURSIVE Gcd(_, _)
Gcd(a, b) == IF b = 0 THEN a ELSE Gcd(b, a % b)

RECURSIVE SelectSeqIdx(_, _, _)
SelectSeqIdx(q, keep, k) ==
    IF k > Len(q) THEN <<>>
    ELSE (IF keep[k] THEN <<q[k]>> ELSE <<>>) \o SelectSeqIdx(q, keep, k + 1)

-----------------------------------------------------------------------------
(* Sequential statistics: rtotal, runs, streak, zscore (lines 117-162) *)

(* np.count_nonzero(vec) *)
count_nonzero(vec) == Cardinality({k \in 1..Len(vec) : vec[k] # 0})

rtotal(vec) ==
    LET tcount == count_nonzero(vec)
        fcount == Len(vec) - tcount
    IN  tcount - fcount

(* itertools.groupby(vec): the first index of every maximal block of equal
   consecutive values *)
groupby(vec) == {k \in 1..Len(vec) : k = 1 \/ vec[k] # vec[k - 1]}

(* runs counting the changes of value instead of the blocks *)
runs_transitions(vec) == Cardinality(groupby(vec)) - 1

runs(vec) == Cardinality(groupby(vec))

streak(vec) == Len(vec) - SetMax(groupby(vec)) + 1

(* A float result: z = sign * sqrt(num / den), or the exception raised. *)
FloatZero == [exc |-> "", sign |-> 0, num |-> 0, den |-> 1]

Raised(e) == [exc |-> e, sign |-> 0, num |-> 0, den |-> 1]

(* (runs - rbar) / sr with rbar = fac1/fac2 + 1 and sr^2 = sr2num/sr2den,
   sr2den = fac2^2 (fac2 - 1): the quotient is d / fac2 / sr with
   d = runs*fac2 - fac1 - fac2, so its square is d^2 (fac2 - 1) / sr2num. *)
ZQuotient(r, fac1, fac2, sr2num) ==
    LET d == r * fac2 - fac1 - fac2
        p == d * d * (fac2 - 1)
        g == Gcd(p, sr2num)
    IN  IF d = 0 THEN FloatZero
        ELSE [exc |-> "", sign |-> Sign(d), num |-> p \div g, den |-> sr2num \div g]

zscore(vec) ==
    LET n1 == count_nonzero(vec)
        n2 == Len(vec) - n1
        fac1 == 2 * n1 * n2
        fac2 == n1 + n2
        sr2num == fac1 * (fac1 - n1 - n2)
        sr2den == fac2 * fac2 * (fac2 - 1)
    IN  IF fac2 = 0 THEN Raised("ZeroDivisionError")            \* line 154
        ELSE IF sr2den = 0 THEN Raised("ZeroDivisionError")      \* line 157
        ELSE IF sr2num < 0 THEN Raised("ValueError")             \* line 157
        ELSE IF sr2num # 0                                       \* line 158
             THEN ZQuotient(runs(vec), fac1, fac2, sr2num)       \* line 159
             ELSE FloatZero                                      \* line 161

(* the float as a fixed-point number, truncated toward zero *)
FloatMilli(z) == z.sign * 10 * Isqrt((z.num * 100 * 100) \div z.den)


-----------------------------------------------------------------------------
(* runs_test (lines 169-188) *)

(* an integer statistic as a float result *)
IntFloat(v) == [exc |-> "", sign |-> Sign(v), num |-> v * v, den |-> 1]

(* the dictionary all_funcs, in its insertion order *)
all_funcs == <<"runs", "streak", "rtotal", "zscore">>

ApplyFunc(w, vec) ==
    CASE w = "runs" -> IntFloat(runs(vec))
      [] w = "streak" -> IntFloat(streak(vec))
      [] w = "rtotal" -> IntFloat(rtotal(vec))
      [] w = "zscore" -> zscore(vec)

(* the window of `window` values ending at row k *)
WindowAt(fc, k, window) == [j \in 1..window |-> fc[k - window + j].n]

(* rolling(window) has min_periods = window: a row has a value only when the
   window is full and holds no missing value *)
WindowFull(fc, k, window) ==
    k >= window /\ \A j \in (k - window + 1)..k : ~IsNaN(fc[j])

(* fc.rolling(window=window).apply(func): a column of cells, or the exception
   func raised on some window *)
rolling_apply(fc, window, w) ==
    LET full == {k \in 1..Len(fc) : WindowFull(fc, k, window)}
        res  == [k \in full |-> ApplyFunc(w, WindowAt(fc, k, window))]
        bad  == {k \in full : res[k].exc # ""}
    IN  IF bad # {}
        THEN [exc |-> res[SetMin(bad)].exc, col |-> <<>>]
        ELSE [exc |-> "",
              col |-> [k \in 1..Len(fc) |->
                         IF k \in full THEN Num(FloatMilli(res[k])) ELSE NaN]]

(* Series.fillna(value) *)
fillna(col, value) == [k \in 1..Len(col) |-> IF IsNaN(col[k]) THEN value ELSE col[k]]

(* pd.DataFrame() *)
EmptyFrame == [exc |-> "", rows |-> 0, cols |-> <<>>]

RECURSIVE RunsLoop(_, _, _, _)
RunsLoop(fc, wfuncs, window, new_features) ==
    IF wfuncs = <<>> THEN new_features
    ELSE LET w == Head(wfuncs) IN
         IF w \in Range(all_funcs)
         THEN LET r == rolling_apply(fc, window, w) IN
              IF r.exc # "" THEN [exc |-> r.exc, rows |-> 0, cols |-> <<>>]
              ELSE RunsLoop(fc, Tail(wfuncs), window,
                            [exc |-> "", rows |-> Len(fc),
                             cols |-> Append(new_features.cols, fillna(r.col, Num(0)))])
         ELSE RunsLoop(fc, Tail(wfuncs), window, new_features)   \* line 187

runs_test(fc, wfuncs, window) ==
    RunsLoop(fc, IF "all" \in Range(wfuncs) THEN all_funcs ELSE wfuncs,
             window, EmptyFrame)


-----------------------------------------------------------------------------
(* impute_values (lines 261-273) *)

(* the non-missing numbers of a column, in row order *)
Present(col) ==
    LET kept == SelectSeq(col, LAMBDA c : ~IsNaN(c))
    IN  [k \in 1..Len(kept) |-> kept[k].n]

(* Imputer(strategy='median') *)
Median(vals) ==
    LET srt == SortSeq(vals, LAMBDA a, b : a < b)
        m   == Len(srt)
    IN  IF m % 2 = 1 THEN srt[(m + 1) \div 2]
        ELSE (srt[m \div 2] + srt[m \div 2 + 1]) \div 2

(* Imputer(strategy='most_frequent'): the smallest of the most frequent values *)
MostFrequent(vals) ==
    LET cnt(v) == Cardinality({k \in 1..Len(vals) : vals[k] = v})
        best == SetMax({cnt(v) : v \in Range(vals)})
    IN  SetMin({v \in Range(vals) : cnt(v) = best})

(* imp.fit_transform on one column: the column with every missing cell
   replaced by the statistic *)
ImputeColumn(col, stat) == [k \in 1..Len(col) |-> IF IsNaN(col[k]) THEN stat ELSE col[k].n]

(* a column with missing cells only has no statistic and is dropped *)
RECURSIVE ImputeAll(_, _)
ImputeAll(cols, dt) ==
    IF cols = <<>> THEN <<>>
    ELSE LET col == Head(cols)
             vals == Present(col)
         IN  (IF vals = <<>> THEN <<>>
              ELSE <<ImputeColumn(col, IF dt = "float64" THEN Median(vals)
                                                        ELSE MostFrequent(vals))>>)
             \o ImputeAll(Tail(cols), dt)

(* features: a sequence of columns of cells; the result: columns of numbers *)
impute_values(features, dt) ==
    IF dt \in {"float64", "int64", "bool"}
    THEN [exc |-> "", cols |-> ImputeAll(features, dt)]
    ELSE [exc |-> "TypeError", cols |-> <<>>]                   \* line 271

-----------------------------------------------------------------------------
(* get_numerical_features (lines 280-300) *)

LnScale == 100 * 100

(* halve or double x (in units of 1/LnScale) into [1, 2), counting the steps *)
RECURSIVE LnReduce(_, _)
LnReduce(x, m) ==
    IF x >= 2 * LnScale THEN LnReduce(x \div 2, m + 1)
    ELSE IF x < LnScale THEN LnReduce(x * 2, m - 1)
    ELSE <<x, m>>

(* t + t^3/3 + t^5/5 + ... in units of 1/LnScale; p is the current odd power *)
RECURSIVE AtanhSeries(_, _, _, _)
AtanhSeries(p, t2, k, acc) ==
    IF p = 0 \/ k > 8 THEN acc
    ELSE AtanhSeries((p * t2) \div LnScale, t2, k + 1, acc + p \div (2 * k + 1))

(* np.log of zero or a negative number: -inf or nan, no finite value *)
NonFinite == 0 - 999999999

(* np.log in thousandths: ln x = m ln 2 + 2 atanh((y - 1)/(y + 1)), x = 2^m y *)
LnMilli(v) ==
    IF v <= 0 THEN NonFinite
    ELSE LET r  == LnReduce(v * 10, 0)
             t  == ((r[1] - LnScale) * LnScale) \div (r[1] + LnScale)
             t2 == (t * t) \div LnScale
         IN  (r[2] * 6931 + 2 * AtanhSeries(t, t2, 0, 0)) \div 10

LogCols(cols) == [c \in 1..Len(cols) |-> [k \in 1..Len(cols[c]) |-> LnMilli(cols[c][k])]]

(* np.all(new_values > 0) *)
AllPositive(cols) == \A c \in 1..Len(cols) : \A k \in 1..Len(cols[c]) : cols[c][k] > 0

(* test: what sps.normaltest(new_values) does on the imputed column, the p-value
   it returns (nan: not a number) or the exception it raises (fewer than 8
   samples).  On a block with no column the comparison of line 296 is false. *)
get_numerical_features_geq(feature, dt, logt, plevel, test) ==
    LET imp == impute_values(<<feature>>, dt) IN
    IF imp.exc # "" THEN imp
    ELSE IF logt /\ \A c \in 1..Len(imp.cols) :
                       \A k \in 1..Len(imp.cols[c]) : imp.cols[c][k] >= 0
         THEN IF imp.cols = <<>> THEN imp
              ELSE IF test.exc # "" THEN [exc |-> test.exc, cols |-> <<>>]
              ELSE IF ~test.nan /\ test.pvalue <= plevel
                   THEN [exc |-> "", cols |-> LogCols(imp.cols)]
                   ELSE imp
         ELSE imp

get_numerical_features(feature, dt, logt, plevel, test) ==
    LET imp == impute_values(<<feature>>, dt) IN                \* line 292
    IF imp.exc # "" THEN imp
    ELSE IF logt /\ AllPositive(imp.cols)                        \* line 294
         THEN IF imp.cols = <<>> THEN imp
              ELSE IF test.exc # "" THEN [exc |-> test.exc, cols |-> <<>>]
              ELSE IF ~test.nan /\ test.pvalue <= plevel         \* line 296
                   THEN [exc |-> "", cols |-> LogCols(imp.cols)] \* line 299
                   ELSE imp
         ELSE imp

-----------------------------------------------------------------------------
(* pd.factorize *)

(* the distinct non-missing cells of a column in first-seen order *)
RECURSIVE Uniques(_, _)
Uniques(col, seen) ==
    IF col = <<>> THEN seen
    ELSE Uniques(Tail(col),
                 IF IsNaN(Head(col)) \/ Head(col) \in Range(seen)
                 THEN seen ELSE Append(seen, Head(col)))

IndexOf(q, v) == CHOOSE k \in 1..Len(q) : q[k] = v

(* pd.factorize(feature)[0] in thousandths: the 0-based position of each cell
   among the uniques, -1 for a missing cell *)
factorize(col) ==
    LET uniques == Uniques(col, <<>>)
    IN  [k \in 1..Len(col) |->
           IF IsNaN(col[k]) THEN 0 - Milli ELSE (IndexOf(uniques, col[k]) - 1) * Milli]

-----------------------------------------------------------------------------
(* get_text_features (lines 322-353) *)

(* alphapy.globs.NULLTEXT, the null-text placeholder *)
NULLTEXT == "NULLTEXT"

(* CountVectorizer's analyzer: the lower-cased words of two or more
   characters of a text, as their ranks in the alphabetical order
   ab < cd < ef < nulltext *)
Tokenize(text) ==
    CASE text = "ab"       -> <<1>>
      [] text = "cd ab"    -> <<2, 1>>
      [] text = "ab cd ef" -> <<1, 2, 3>>
      [] text = NULLTEXT   -> <<4>>
      [] OTHER             -> <<>>

(* the word n-grams of a document for n = 1..ngrams_max *)
NGrams(tokens, ngrams_max) ==
    {SubSeq(tokens, w[1], w[1] + w[2] - 1) :
        w \in {v \in (1..Len(tokens)) \X (1..ngrams_max) :
                  v[1] + v[2] - 1 <= Len(tokens)}}

DocTerms(cell, ngrams_max) == NGrams(Tokenize(cell.s), ngrams_max)

(* the alphabetical order of two n-grams: a proper prefix sorts first *)
RECURSIVE TermLess(_, _)
TermLess(a, b) ==
    IF a = <<>> THEN b # <<>>
    ELSE IF b = <<>> THEN FALSE
    ELSE IF Head(a) # Head(b) THEN Head(a) < Head(b)
    ELSE TermLess(Tail(a), Tail(b))

RECURSIVE SetToSeq(_)
SetToSeq(S) == IF S = {} THEN <<>>
               ELSE LET e == CHOOSE e \in S : TRUE IN <<e>> \o SetToSeq(S \ {e})

(* count_vect.vocabulary_, sorted *)
Vocabulary(col, ngrams_max) ==
    SortSeq(SetToSeq(UNION {DocTerms(col[k], ngrams_max) : k \in 1..Len(col)}),
            TermLess)

(* the number of occurrences of an n-gram in a document *)
TermCount(cell, term) ==
    LET tokens == Tokenize(cell.s)
    IN  Cardinality({a \in 1..Len(tokens) :
                        /\ a + Len(term) - 1 <= Len(tokens)
                        /\ SubSeq(tokens, a, a + Len(term) - 1) = term})

(* TfidfTransformer: tf * (ln((1 + n)/(1 + df)) + 1), each row scaled to unit
   length; a column per vocabulary term.  (Appending the empty sequence
   makes a table of a function, so that it is computed once.) *)
Tfidf(col, vocab) ==
    LET n    == Len(col)
        tf   == [k \in 1..n |-> [t \in 1..Len(vocab) |-> TermCount(col[k], vocab[t])] \o <<>>] \o <<>>
        df   == [t \in 1..Len(vocab) |-> Cardinality({k \in 1..n : tf[k][t] > 0})] \o <<>>
        idf  == [t \in 1..Len(vocab) |-> LnMilli(((1 + n) * Milli) \div (1 + df[t])) + Milli] \o <<>>
        w    == [k \in 1..n |-> [t \in 1..Len(vocab) |-> tf[k][t] * idf[t]] \o <<>>] \o <<>>
        norm == [k \in 1..n |->
                   Isqrt(SeqSum([t \in 1..Len(vocab) |-> (w[k][t] * w[k][t]) \div 100]))] \o <<>>
    IN  [t \in 1..Len(vocab) |->
           [k \in 1..n |-> IF norm[k] = 0 THEN 0 ELSE (w[k][t] * 100) \div norm[k]]]

(* The result: the exception raised, or the block and the column as the call
   left it (fillna(inplace=True) writes into df[fname]). *)
get_text_features(feature, vectorize, ngrams_max) ==
    LET lens   == {k \in 1..Len(feature) : ~IsNaN(feature[k])}   \* feature.str.len()
        filled == fillna(feature, Str(NULLTEXT))                 \* line 337
        vocab  == Vocabulary(filled, ngrams_max)                 \* line 343
    IN  IF lens = {}                                             \* int(nan), line 328
        THEN [exc |-> "ValueError", cols |-> <<>>, feature |-> feature]
        ELSE IF vectorize /\ vocab # <<>>
             THEN [exc |-> "", cols |-> Tfidf(filled, vocab), feature |-> filled]
             ELSE [exc |-> "", cols |-> <<factorize(filled)>>, feature |-> filled]

-----------------------------------------------------------------------------
(* float_factor and get_factors (lines 360-421) *)

RECURSIVE Pow10(_)
Pow10(e) == IF e = 0 THEN 1 ELSE 10 * Pow10(e - 1)

RECURSIVE PowInt(_, _)
PowInt(b, e) == IF e = 0 THEN 1 ELSE b * PowInt(b, e - 1)

Pow2(e) == PowInt(2, e)

(* A string is a sequence of one-character strings. *)
DigitChars == <<"0", "1", "2", "3", "4", "5", "6", "7", "8", "9">>

DigitValue(c) == CHOOSE d \in 0..9 : DigitChars[d + 1] = c

(* str(n) of a natural number *)
RECURSIVE Digits(_)
Digits(n) ==
    IF n < 10 THEN <<DigitChars[n + 1]>>
    ELSE Append(Digits(n \div 10), DigitChars[(n % 10) + 1])

RECURSIVE ZeroPad(_, _)
ZeroPad(s, width) == IF Len(s) >= width THEN s ELSE ZeroPad(<<"0">> \o s, width)

(* A float64 cell holds the double nearest to n/1000, m * 2^-s with
   2^52 <= m < 2^53.  BinaryShift is s; BinaryError is the sign of that
   double minus n/1000, read off the remainder of n * 2^s by 1000 (the
   remainder is never 500, s being at least 3). *)
RECURSIVE BinaryShift(_, _)
BinaryShift(n, s) ==
    IF n >= 2 * Milli THEN BinaryShift(n \div 2, s - 1)
    ELSE IF n < Milli THEN BinaryShift(n * 2, s + 1)
    ELSE s

RECURSIVE Pow2Mod(_)
Pow2Mod(s) == IF s = 0 THEN 1 ELSE (2 * Pow2Mod(s - 1)) % Milli

BinaryError(n) ==
    LET rem == ((n % Milli) * Pow2Mod(BinaryShift(n, 52))) % Milli
    IN  IF rem = 0 THEN 0 ELSE IF 2 * rem < Milli THEN 0 - 1 ELSE 1

(* |x| in units of 10^-rounding as the 'f' format rounds it: the exact value
   of the double is rounded, a tie of that exact value to the even digit *)
FormatRound(n, rounding) ==
    IF rounding >= 3 THEN n * Pow10(rounding - 3)
    ELSE LET u == Pow10(3 - rounding)
             q == n \div u
             r == n % u
         IN  IF 2 * r > u THEN q + 1
             ELSE IF 2 * r < u THEN q
             ELSE IF BinaryError(n) > 0 THEN q + 1
             ELSE IF BinaryError(n) < 0 THEN q
             ELSE q + (q % 2)

(* '{0:.{1}f}'.format(x, rounding), line 361 *)
num2str(x, rounding) ==
    IF IsNaN(x) THEN <<"n", "a", "n">>
    ELSE IF x.n = NonFinite THEN <<"-", "i", "n", "f">>
    ELSE LET scaled == FormatRound(Abs(x.n), rounding)
         IN  (IF x.n < 0 THEN <<"-">> ELSE <<>>)
             \o Digits(scaled \div Pow10(rounding))
             \o (IF rounding > 0
                 THEN <<".">> \o ZeroPad(Digits(scaled % Pow10(rounding)), rounding)
                 ELSE <<>>)

(* re.sub("[^0-9]", "", s), line 362 *)
IsDigit(c) == c \in Range(DigitChars)

re_sub_nondigits(s) == SelectSeq(s, IsDigit)

(* int(fstr) of a digit string *)
RECURSIVE int(_)
int(fstr) ==
    IF fstr = <<>> THEN 0
    ELSE 10 * int(SubSeq(fstr, 1, Len(fstr) - 1)) + DigitValue(fstr[Len(fstr)])

ffactor(fstr) == IF Len(fstr) > 0 THEN int(fstr) ELSE 0          \* line 363

(* a variant that keeps the sign of x *)
float_factor_signed(x, rounding) ==
    IF ~IsNaN(x) /\ x.n < 0
    THEN 0 - ffactor(re_sub_nondigits(num2str(x, rounding)))
    ELSE ffactor(re_sub_nondigits(num2str(x, rounding)))

float_factor(x, rounding) == ffactor(re_sub_nondigits(num2str(x, rounding)))

(* the encoders of category_encoders build on the ordinal code of a cell:
   its 1-based first-seen position among the non-missing values, -1 when
   missing *)
OrdinalCode(col, k) ==
    IF IsNaN(col[k]) THEN 0 - 1 ELSE IndexOf(Uniques(col, <<>>), col[k])

(* the number of columns and the cell values of enc.fit_transform(ef): ordinal
   is the code itself; binary its bits; the four contrast codings have one
   column less than there are categories (Helmert and sum coding exact,
   backward-difference and polynomial in thousandths) *)
BitsFor(n) == IF n < 2 THEN 1 ELSE IF n < 4 THEN 2 ELSE IF n < 8 THEN 3 ELSE 4

EncodedWidth(encoder, ncat) ==
    CASE encoder = "ordinal" -> 1
      [] encoder = "binary"  -> BitsFor(ncat)
      [] OTHER -> IF ncat > 1 THEN ncat - 1 ELSE 0

EncodedValue(encoder, ncat, code, c) ==
    CASE encoder = "ordinal" -> code * Milli
      [] encoder = "binary" ->
            IF code < 0 THEN 0 ELSE ((code \div Pow2(c - 1)) % 2) * Milli
      [] encoder = "helmert" ->
            IF code < 0 THEN 0
            ELSE IF code <= c THEN 0 - Milli
            ELSE IF code = c + 1 THEN c * Milli ELSE 0
      [] encoder = "sumcont" ->
            IF code < 0 THEN 0
            ELSE IF code = ncat THEN 0 - Milli
            ELSE IF code = c THEN Milli ELSE 0
      [] encoder = "backdiff" ->
            IF code < 0 THEN 0
            ELSE IF code <= c THEN 0 - ((ncat - c) * Milli) \div ncat
            ELSE (c * Milli) \div ncat
      [] encoder = "polynomial" ->
            IF code < 0 THEN 0
            ELSE PowInt(2 * code - ncat - 1, c) * (Milli \div 10)

ce_fit_transform(encoder, col) ==
    LET ncat == Len(Uniques(col, <<>>))
    IN  [c \in 1..EncodedWidth(encoder, ncat) |->
           [k \in 1..Len(col) |->
              EncodedValue(encoder, ncat, OrdinalCode(col, k), c)]]

ContrastEncoders == {"ordinal", "binary", "helmert", "sumcont", "polynomial", "backdiff"}

(* a cell of a frame as a number of an array: a missing cell is nan *)
ToFloat(c) == IF IsNaN(c) THEN NonFinite ELSE c.n

(* pd.crosstab(X[fname], y).apply(lambda r : r / r.sum(), axis=1)
   .to_dict()[target_value]: for every non-missing category of the training
   rows the share of its rows labelled target_value; no entry at all (a
   KeyError) when no such row carries that label *)
TrainRows(train, y) == {k \in 1..Len(train) : k <= Len(y) /\ ~IsNaN(train[k])}

HasTarget(train, y, target_value) ==
    \E k \in TrainRows(train, y) : y[k] = target_value

CtMapHas(train, y, cell) == \E k \in TrainRows(train, y) : train[k] = cell

CtMapGet(train, y, target_value, cell) ==
    LET rows == {k \in TrainRows(train, y) : train[k] = cell}
        pos  == {k \in rows : y[k] = target_value}
    IN  IF rows = {} THEN NaN
        ELSE Num((Cardinality(pos) * Milli) \div Cardinality(rows))

(* df[[fname]].applymap(ct_map.get) *)
CtFeature(col, train, y, target_value) ==
    [k \in 1..Len(col) |-> CtMapGet(train, y, target_value, col[k])]

ToFloats(col) == [k \in 1..Len(col) |-> ToFloat(col[k])]

(* The result: the exception raised; or none = TRUE for the return value
   None; or the block.  col: df[fname]; train: X[fname], the training rows.
   rate = TRUE when the block's last column is the target-rate column. *)
NoBlock == [exc |-> "", none |-> TRUE, cols |-> <<>>, rate |-> FALSE]

RaisedBlock(e) == [exc |-> e, none |-> FALSE, cols |-> <<>>, rate |-> FALSE]

get_factors_nosentinel(col, dtype, encoder, rounding, sentinel, target_value, train, y, classify) ==
    LET feature == IF dtype = "float64"
                   THEN [k \in 1..Len(col) |-> Num(float_factor(col[k], rounding) * Milli)]
                   ELSE col
    IN  IF encoder \in {"factorize", "onehot"} THEN NoBlock
        ELSE IF encoder \notin ContrastEncoders THEN RaisedBlock("ValueError")
        ELSE LET all == ce_fit_transform(encoder, feature) IN
             IF ~classify
             THEN [exc |-> "", none |-> FALSE, cols |-> all, rate |-> FALSE]
             ELSE IF ~HasTarget(train, y, target_value) THEN RaisedBlock("KeyError")
             ELSE [exc |-> "", none |-> FALSE, rate |-> TRUE,
                   cols |-> Append(all, ToFloats(CtFeature(col, train, y, target_value)))]

get_factors(col, dtype, encoder, rounding, sentinel, target_value, train, y, classify) ==
    LET feature == IF dtype = "float64"                          \* line 381
                   THEN [k \in 1..Len(col) |-> Num(float_factor(col[k], rounding) * Milli)]
                   ELSE col
    IN  IF encoder \in {"factorize", "onehot"} THEN NoBlock      \* lines 387-390, 406
        ELSE IF encoder \notin ContrastEncoders
             THEN RaisedBlock("ValueError")                      \* line 404
        ELSE LET all == ce_fit_transform(encoder, feature) IN    \* line 408
             IF ~classify
             THEN [exc |-> "", none |-> FALSE, cols |-> all, rate |-> FALSE]
             ELSE IF ~HasTarget(train, y, target_value)
                  THEN RaisedBlock("KeyError")                   \* line 415
             ELSE LET ct_feature ==
                          fillna(CtFeature(col, train, y, target_value),
                                 Num(sentinel))                  \* lines 416-418
                  IN  [exc |-> "", none |-> FALSE, rate |-> TRUE,
                       cols |-> Append(all, ToFloats(ct_feature))]   \* line 420

-----------------------------------------------------------------------------
(* select_features (lines 810-854).  A matrix is a sequence of columns. *)

(* model.specs['fs_score_func'](X_train, y_train): one score per column.  The
   scoring function is configuration; this one scores a column by the distance
   between the class means, |n0 * sum(x | y = 1) - n1 * sum(x | y = 0)|. *)
ScoreFunc(Xm, y) ==
    LET rows(j) == 1..Len(Xm[j])
        s1(j) == SeqSum([k \in rows(j) |-> IF y[k] = 1 THEN Xm[j][k] \div Milli ELSE 0])
        s0(j) == SeqSum([k \in rows(j) |-> IF y[k] = 1 THEN 0 ELSE Xm[j][k] \div Milli])
        n1 == Cardinality({k \in DOMAIN y : y[k] = 1})
        n0 == Len(y) - n1
    IN  [j \in 1..Len(Xm) |-> Abs(n0 * s1(j) - n1 * s0(j))]

(* the first n elements of q; a negative n drops the last -n (ties[:n]) *)
Prefix(q, n) ==
    LET m == IF n >= 0 THEN n ELSE Len(q) + n
    IN  SubSeq(q, 1, IF m < 0 THEN 0 ELSE IF m > Len(q) THEN Len(q) ELSE m)

(* SelectPercentile(percentile).fit(...).get_support(): the columns scoring
   above np.percentile(scores, 100 - percentile) (linear interpolation, here
   times 100), and ties with the threshold, first come, up to
   int(len(scores) * percentile / 100) columns *)
SupportMask(scores, percentile) ==
    LET m == Len(scores) IN
    IF percentile = 100 \/ m = 0 THEN [j \in 1..m |-> TRUE]
    ELSE IF percentile = 0 THEN [j \in 1..m |-> FALSE]
    ELSE LET srt == SortSeq(scores, LAMBDA a, b : a < b)
             pos == (100 - percentile) * (m - 1)
             lo  == pos \div 100 + 1
             hi  == IF lo < m THEN lo + 1 ELSE m
             thr == srt[lo] * (100 - (pos % 100)) + srt[hi] * (pos % 100)
             above == {j \in 1..m : scores[j] * 100 > thr}
             ties == SelectSeq([j \in 1..m |-> j], LAMBDA j : scores[j] * 100 = thr)
             max_feats == (m * percentile) \div 100
             kept == Range(Prefix(ties, max_feats - Cardinality(above)))
         IN  [j \in 1..m |-> j \in above \/ j \in kept]

(* the selector refitted on the test matrix before the test matrix is cut *)
select_features_refit(mdl) ==
    LET support == SupportMask(ScoreFunc(mdl.X_train, mdl.y_train),
                               mdl.specs.fs_percentage)
        support2 == SupportMask(ScoreFunc(mdl.X_test, mdl.y_train),
                                mdl.specs.fs_percentage)
    IN  [mdl EXCEPT !.X_train = SelectSeqIdx(mdl.X_train, support, 1),
                    !.X_test = SelectSeqIdx(mdl.X_test, support2, 1)]

select_features(mdl) ==
    LET support == SupportMask(ScoreFunc(mdl.X_train, mdl.y_train),
                               mdl.specs.fs_percentage)          \* lines 829-835
    IN  [mdl EXCEPT !.X_train = SelectSeqIdx(mdl.X_train, support, 1),   \* 839, 849
                    !.X_test = SelectSeqIdx(mdl.X_test, support, 1)]     \* 840, 850

-----------------------------------------------------------------------------
(* Arrays.  An array is [rows, cols]: cols is a sequence of columns [tag, v],
   v the numbers of the column and tag the block the column came from (kind),
   the dataset column it was made for (of) and its position in the block (k). *)

Tag(kind, of, k) == [kind |-> kind, of |-> of, k |-> k]

(* the block a transform returned: `rows` rows and the columns `cols` *)
Block(rows, kind, of, cols) ==
    [rows |-> rows,
     cols |-> [c \in 1..Len(cols) |-> [tag |-> Tag(kind, of, c), v |-> cols[c]]]]

(* np.zeros((n, 1)) *)
zeros(n) == Block(n, "placeholder", "", <<[k \in 1..n |-> 0]>>)

(* np.array(None) as a column: one row, one cell *)
NoneArray(kind, of) == Block(1, kind, of, <<<<NonFinite>>>>)

(* np.column_stack((a, b)) appends whatever it is given *)
column_stack_ragged(a, b) ==
    [exc |-> "", m |-> [rows |-> a.rows, cols |-> a.cols \o b.cols]]

(* np.column_stack((a, b)): ValueError unless the row counts agree *)
column_stack(a, b) ==
    IF b.rows # a.rows THEN [exc |-> "ValueError", m |-> a]
    ELSE [exc |-> "", m |-> [rows |-> a.rows, cols |-> a.cols \o b.cols]]

(* np.delete(a, 0, axis=1) *)
delete_first(a) == [rows |-> a.rows, cols |-> Tail(a.cols)]

Values(a) == [c \in 1..Len(a.cols) |-> a.cols[c].v]

(* the mean and the standard deviation (population) of a sequence of numbers *)
Mean(vals) == SeqSum(vals) \div Len(vals)

SumSq(vals, mean) == SeqSum([k \in 1..Len(vals) |-> ((vals[k] - mean) \div 10) * ((vals[k] - mean) \div 10)])

Std(vals) == 10 * Isqrt(SumSq(vals, Mean(vals)) \div Len(vals))

(* StandardScaler().fit_transform on one column; a constant column is only
   centred *)
Standardize(vals) ==
    LET mean == Mean(vals)
        std  == Std(vals)
    IN  [k \in 1..Len(vals) |->
           IF std = 0 THEN vals[k] - mean ELSE ((vals[k] - mean) * Milli) \div std]

(* MinMaxScaler().fit_transform on one column *)
MinMax(vals) ==
    LET lo == SetMin(Range(vals))
        hi == SetMax(Range(vals))
    IN  [k \in 1..Len(vals) |->
           IF hi = lo THEN 0 ELSE ((vals[k] - lo) * Milli) \div (hi - lo)]

(* a scaler's fit_transform on an array: sklearn refuses an array with no
   column or no row *)
StandardScaler(a) ==
    IF a.cols = <<>> \/ a.rows = 0 THEN [exc |-> "ValueError", m |-> a]
    ELSE [exc |-> "",
          m |-> [a EXCEPT !.cols = [c \in 1..Len(a.cols) |->
                                      [a.cols[c] EXCEPT !.v = Standardize(@)]]]]

MinMaxScaler(a) ==
    IF a.cols = <<>> \/ a.rows = 0 THEN [exc |-> "ValueError", m |-> a]
    ELSE [exc |-> "",
          m |-> [a EXCEPT !.cols = [c \in 1..Len(a.cols) |->
                                      [a.cols[c] EXCEPT !.v = MinMax(@)]]]]

-----------------------------------------------------------------------------
(* The derived-feature generators (lines 428-652).  Each takes the array
   `features` it is given and returns [exc, m]. *)

RowOf(features, r) == [c \in 1..Len(features.cols) |-> features.cols[c].v[r]]

(* np.sum, np.mean, np.std, np.var along axis 1; the mean, deviation and
   variance of a row with no element are nan *)
RowStat(stat, row) ==
    IF stat = "sum" THEN SeqSum(row)
    ELSE IF row = <<>> THEN NonFinite
    ELSE CASE stat = "mean" -> Mean(row)
           [] stat = "std"  -> Std(row)
           [] stat = "var"  -> (SumSq(row, Mean(row)) \div Len(row)) \div 10

(* impute_values(block, 'float64') on an array: nan cells are the missing ones *)
ImputeArray(cols) ==
    impute_values([c \in 1..Len(cols) |->
                     [k \in 1..Len(cols[c]) |->
                        IF cols[c][k] = NonFinite THEN NaN ELSE Num(cols[c][k])]],
                  "float64").cols

create_numpy_features(features) ==
    LET stats == <<"sum", "mean", "std", "var">>
        raw == [s \in 1..Len(stats) |->
                  [r \in 1..features.rows |-> RowStat(stats[s], RowOf(features, r))]]
    IN  StandardScaler(Block(features.rows, "numpy", "", ImputeArray(raw)))

(* A library estimator fitted on `features` is a deterministic function of
   that array.  Its numbers stand for the library's: a fixed linear
   combination of the row, the weights set by the estimator and the component. *)
Projection(features, seed, r) ==
    SeqSum([c \in 1..Len(features.cols) |->
              (((c * seed) % 3) + 1) * features.cols[c].v[r]])

Projected(features, seed) == [r \in 1..features.rows |-> Projection(features, seed, r)]

(* scipy's skewtest (also inside normaltest) refuses fewer than 8 values,
   here the values of a row: one per column of `features` *)
MinSkewTest == 8

create_scipy_features(features) ==
    IF Len(features.cols) < MinSkewTest THEN [exc |-> "ValueError", m |-> features]
    ELSE StandardScaler(Block(features.rows, "scipy", "",
             ImputeArray([s \in 1..9 |-> Projected(features, 10 + s)])))

(* range(lo, hi + 1, inc) *)
RECURSIVE PyRange(_, _, _)
PyRange(lo, hi, inc) == IF lo > hi THEN <<>> ELSE <<lo>> \o PyRange(lo + inc, hi, inc)

(* an estimator refuses an array without a column or a row *)
Fittable(features) == features.cols # <<>> /\ features.rows > 0

create_clusters(features, sp) ==
    LET ks == PyRange(sp.cluster_min, sp.cluster_max, sp.cluster_inc)
    IN  IF ks # <<>> /\ (~Fittable(features) \/ \E j \in 1..Len(ks) : ks[j] > features.rows)
        THEN [exc |-> "ValueError", m |-> features]
        ELSE [exc |-> "",
              m |-> Block(features.rows, "cluster", "",
                      [j \in 1..Len(ks) |->
                         [r \in 1..features.rows |->
                            ((Projection(features, 20 + ks[j], r) \div Milli) % ks[j]) * Milli]])]

RECURSIVE PcaColumns(_, _)
PcaColumns(features, ns) ==
    IF ns = <<>> THEN <<>>
    ELSE [c \in 1..Head(ns) |-> Projected(features, 30 + 10 * Head(ns) + c)]
         \o PcaColumns(features, Tail(ns))

create_pca_features(features, sp) ==
    LET ns == PyRange(sp.pca_min, sp.pca_max, sp.pca_inc)
    IN  IF ns # <<>> /\ (~Fittable(features) \/ \E j \in 1..Len(ns) :
                            ns[j] > Len(features.cols) \/ ns[j] > features.rows)
        THEN [exc |-> "ValueError", m |-> features]
        ELSE [exc |-> "", m |-> Block(features.rows, "pca", "", PcaColumns(features, ns))]

create_isomap_features(features, sp) ==
    IF ~Fittable(features) THEN [exc |-> "ValueError", m |-> features]
    ELSE [exc |-> "",
          m |-> Block(features.rows, "isomap", "",
                  [c \in 1..sp.iso_components |-> Projected(features, 70 + c)])]

create_tsne_features(features, sp) ==
    IF ~Fittable(features) THEN [exc |-> "ValueError", m |-> features]
    ELSE [exc |-> "",
          m |-> Block(features.rows, "tsne", "",
                  [c \in 1..sp.tsne_components |-> Projected(features, 80 + c)])]

-----------------------------------------------------------------------------
(* create_features (lines 659-803).  The dataset X is a sequence of columns
   [name, dtype, cells]; specs is model.specs. *)

Rows(Xd) == Len(Xd[1].cells)

(* len(X[fc].unique()): a missing cell counts as one value *)
nunique(cells) == Cardinality(Range(cells))

(* X.count(axis=1): the cells of row r that are not missing *)
RowCount(Xd, r) == Cardinality({c \in 1..Len(Xd) : ~IsNaN(Xd[c].cells[r])})

(* (X == i).astype(int).sum(axis=1): the cells of row r equal to the number i *)
RowEquals(Xd, r, i) ==
    Cardinality({c \in 1..Len(Xd) : Xd[c].cells[r].t = "num" /\ Xd[c].cells[r].n = i * Milli})

count_names == <<"count_0", "count_1", "count_2", "count_3", "count_4", "count_5", "count_6", "count_7", "count_8", "count_9">>

(* for i in range(10): X[fc] = ..., lines 703-705; each count sees the
   columns added before it *)
RECURSIVE number_counts(_, _)
number_counts(Xd, i) ==
    IF i >= Len(count_names) THEN Xd
    ELSE number_counts(Append(Xd, [name |-> count_names[i + 1], dtype |-> "int64",
                                   cells |-> [r \in 1..Rows(Xd) |-> Num(RowEquals(Xd, r, i) * Milli)]]),
                       i + 1)

(* lines 698-706 *)
count_features(Xd) ==
    number_counts(Append(Xd, [name |-> "nan_count", dtype |-> "int64",
                              cells |-> [r \in 1..Rows(Xd) |-> Num(RowCount(Xd, r) * Milli)]]),
                  0)

(* sps.normaltest on the imputed column: fewer than 8 values are refused;
   otherwise the p-value is the library's, here small exactly when the
   values are not placed evenly about their mean *)
normaltest(vals) ==
    IF Len(vals) < MinSkewTest THEN [exc |-> "ValueError", nan |-> FALSE, pvalue |-> 0]
    ELSE [exc |-> "", nan |-> FALSE,
          pvalue |-> IF SetMax(Range(vals)) + SetMin(Range(vals)) = 2 * Mean(vals)
                     THEN Milli ELSE 0]

NormalTestOf(cells, dtype) ==
    LET imp == impute_values(<<cells>>, dtype)
    IN  normaltest(IF imp.exc = "" /\ imp.cols # <<>> THEN imp.cols[1] ELSE <<>>)

(* the treatment configured for a column, treatments[fc]; treatments is a
   sequence of [column, func, wfuncs, window] *)
TreatmentsOf(sp, fname) == {k \in 1..Len(sp.treatments) : sp.treatments[k].column = fname}

TreatmentFor(sp, fname) == sp.treatments[CHOOSE k \in TreatmentsOf(sp, fname) : TRUE]

(* the functions of the module a treatment can name; the configurations use
   runs_test and split_to_letters *)
ModuleNames == {"runs_test", "split_to_letters", "texplode", "cvectorize"}

(* the frame runs_test returns, as the array np.column_stack makes of it *)
RunsBlock(fname, r) ==
    [exc |-> r.exc,
     block |-> Block(r.rows, "treatment", fname,
                     [c \in 1..Len(r.cols) |-> ToFloats(r.cols[c])])]

ColumnNamed(Xd, fname) == Xd[CHOOSE c \in 1..Len(Xd) : Xd[c].name = fname]

(* apply_treatment where a name the module does not define is passed over *)
apply_treatment_skip(Xd, fname, fparams) ==
    IF fparams.func \notin ModuleNames
    THEN [exc |-> "", block |-> Block(Rows(Xd), "treatment", fname, <<>>)]
    ELSE IF fparams.func = "runs_test"
    THEN RunsBlock(fname, runs_test(ColumnNamed(Xd, fname).cells, fparams.wfuncs, fparams.window))
    ELSE [exc |-> "", block |-> NoneArray("treatment", fname)]

(* apply_treatment, lines 238-254: eval of "func(df, 'fname', params)".  A
   name the module does not define makes eval raise NameError; runs_test
   returns its frame; split_to_letters returns None for a column that is not
   of type object (the configurations name it for such columns only). *)
apply_treatment(Xd, fname, fparams) ==
    IF fparams.func \notin ModuleNames
    THEN [exc |-> "NameError", block |-> Block(0, "treatment", fname, <<>>)]
    ELSE IF fparams.func = "runs_test"
    THEN RunsBlock(fname, runs_test(ColumnNamed(Xd, fname).cells, fparams.wfuncs, fparams.window))
    ELSE [exc |-> "", block |-> NoneArray("treatment", fname)]

(* the chain of lines 724-735 with the type tested before the cardinality *)
default_transform_bytype(nvalues, dummy_limit, dtype) ==
    IF dtype \in {"float64", "int64", "bool"} THEN "numerical"
    ELSE IF nvalues <= dummy_limit THEN "factor"
    ELSE IF dtype = "object" THEN "text"
    ELSE "TypeError"

(* the if/elif chain of lines 724-735 *)
default_transform(nvalues, dummy_limit, dtype) ==
    IF nvalues <= dummy_limit THEN "factor"
    ELSE IF dtype \in {"float64", "int64", "bool"} THEN "numerical"
    ELSE IF dtype = "object" THEN "text"
    ELSE "TypeError"

(* what a branch of lines 724-735 hands back: [exc, none, block, cells],
   cells the column as the transform leaves it in X *)
FactorResult(col, r) ==
    [exc |-> r.exc, none |-> r.none, cells |-> col.cells,
     block |-> Block(Len(col.cells), "factor", col.name, r.cols)]

NumericalResult(col, r) ==
    [exc |-> r.exc, none |-> FALSE, cells |-> col.cells,
     block |-> Block(Len(col.cells), "numerical", col.name, r.cols)]

TextResult(col, r) ==
    [exc |-> r.exc, none |-> FALSE, cells |-> r.feature,
     block |-> Block(Len(col.cells), "text", col.name, r.cols)]

(* the call made by the chosen branch *)
transform(kind, col, sp, train, y) ==
    CASE kind = "factor" ->
           FactorResult(col, get_factors(col.cells, col.dtype, sp.encoder, sp.rounding, sp.sentinel, sp.target_value, train, y, sp.model_type = "classification"))
      [] kind = "numerical" ->
           NumericalResult(col, get_numerical_features(col.cells, col.dtype, sp.logtransform, sp.pvalue_level, NormalTestOf(col.cells, col.dtype)))
      [] kind = "text" ->
           TextResult(col, get_text_features(col.cells, sp.vectorize, sp.ngrams_max))
      [] OTHER -> [exc |-> "TypeError", none |-> TRUE, cells |-> col.cells,
                   block |-> Block(Len(col.cells), "", col.name, <<>>)]

LogEntry(fnum, fname, what) == [fnum |-> fnum, fname |-> fname, what |-> what]

Unchanged(af) == [exc |-> "", m |-> af]

(* line 722 for the result tr of the treatment *)
stack_treatment(af, tr) ==
    IF tr.exc # "" THEN [exc |-> tr.exc, m |-> af] ELSE column_stack(af, tr.block)

(* lines 720-722 *)
treatment_stage(Xd, fname, sp, af) ==
    IF TreatmentsOf(sp, fname) = {} THEN Unchanged(af)
    ELSE stack_treatment(af, apply_treatment(Xd, fname, TreatmentFor(sp, fname)))

(* lines 736-737 after the treatment stage s1 and the transform result f, and
   what the pass leaves: [exc, args, m, X, log] *)
body_result(Xd, i, af, treated, kind, s1, f, fargs) ==
    LET col  == Xd[i]
        tlog == IF treated THEN <<LogEntry(i, col.name, "special treatment")>> ELSE <<>>
        flog == IF kind = "TypeError" THEN tlog
                ELSE Append(tlog, LogEntry(i, col.name, kind))
        Xf   == [Xd EXCEPT ![i].cells = f.cells]
    IN  IF s1.exc # ""
        THEN [exc |-> s1.exc, args |-> <<>>, m |-> af, X |-> Xd, log |-> tlog]
        ELSE IF kind = "TypeError"                               \* line 735
        THEN [exc |-> "TypeError", m |-> s1.m, X |-> Xd, log |-> tlog,
              args |-> <<"Base Feature Error with unrecognized type %s", col.dtype>>]
        ELSE IF f.exc # ""
        THEN [exc |-> f.exc, args |-> fargs, m |-> s1.m, X |-> Xf, log |-> flog]
        ELSE IF f.none                                           \* line 736
        THEN [exc |-> "", args |-> <<>>, m |-> s1.m, X |-> Xf, log |-> flog]
        ELSE [exc |-> column_stack(s1.m, f.block).exc, args |-> <<>>,
              m |-> column_stack(s1.m, f.block).m, X |-> Xf, log |-> flog]

(* the transform of column i chosen from its cardinality (line 718), the
   dummy limit and its type *)
KindOf(col, sp) == default_transform(nunique(col.cells), sp.dummy_limit, col.dtype)

(* the arguments of the exception a transform raises itself: get_factors
   for an encoder it does not know (line 404); an exception coming out of a
   library call carries the library's message, which is not modelled *)
transform_args(kind, sp) ==
    IF kind = "factor" /\ sp.encoder \notin ContrastEncoders \cup {"factorize", "onehot"}
    THEN <<"Unknown Encoder %s", sp.encoder>>
    ELSE <<>>

(* one pass of the loop body, lines 716-737, for column i (fnum = i) *)
column_body(Xd, i, sp, train, y, af) ==
    body_result(Xd, i, af, TreatmentsOf(sp, Xd[i].name) # {}, KindOf(Xd[i], sp),
                treatment_stage(Xd, Xd[i].name, sp, af),
                transform(KindOf(Xd[i], sp), Xd[i], sp, train, y),
                transform_args(KindOf(Xd[i], sp), sp))

Scaled(r) == [exc |-> r.exc, m |-> r.m, log |-> <<>>]

(* lines 744-753 *)
scale_features(af, sp) ==
    IF ~sp.scaler_option THEN [exc |-> "", m |-> af, log |-> <<>>]
    ELSE IF sp.scaler_type = "standard" THEN Scaled(StandardScaler(af))
    ELSE IF sp.scaler_type = "minmax" THEN Scaled(MinMaxScaler(af))
    ELSE [exc |-> "", m |-> af,
          log |-> <<LogEntry(0, sp.scaler_type, "Unrecognized scaler")>>]

(* all_features = np.column_stack((all_features, block)) for a generator's
   result *)
stack_block(af, r) == IF r.exc # "" THEN [exc |-> r.exc, m |-> af] ELSE column_stack(af, r.m)

(* lines 761-763 *)
numpy_step(af, base, sp) ==
    IF sp.numpy THEN stack_block(af, create_numpy_features(base)) ELSE Unchanged(af)

(* lines 768-770 *)
scipy_step(af, base, sp) ==
    IF sp.scipy THEN stack_block(af, create_scipy_features(base)) ELSE Unchanged(af)

(* lines 775-777 *)
cluster_step(af, base, sp) ==
    IF sp.clustering THEN stack_block(af, create_clusters(base, sp)) ELSE Unchanged(af)

(* the PCA step fed the array built so far *)
pca_step_chained(af, base, sp) ==
    IF sp.pca THEN stack_block(af, create_pca_features(af, sp)) ELSE Unchanged(af)

(* lines 782-784 *)
pca_step(af, base, sp) ==
    IF sp.pca THEN stack_block(af, create_pca_features(base, sp)) ELSE Unchanged(af)

(* lines 789-791 *)
isomap_step(af, base, sp) ==
    IF sp.isomap THEN stack_block(af, create_isomap_features(base, sp)) ELSE Unchanged(af)

(* lines 796-798 *)
tsne_step(af, base, sp) ==
    IF sp.tsne THEN stack_block(af, create_tsne_features(base, sp)) ELSE Unchanged(af)

-----------------------------------------------------------------------------
(* The values of the variables a specification does not use. *)

Idle == <<>>

IdlePipe ==
    /\ X = Idle /\ specs = Idle /\ y_train = Idle /\ fi = 0
    /\ all_features = Idle /\ stacked = Idle /\ base_features = Idle
    /\ err = Idle /\ log = Idle

-----------------------------------------------------------------------------
(* SpecRuns: the sequential statistics applied to every binary window *)

MaxVec == 4

RECURSIVE BinSeqs(_)
BinSeqs(len) ==
    IF len = 0 THEN {<<>>}
    ELSE {Append(q, b) : q \in BinSeqs(len - 1), b \in {0, 1}}

BinVecs == UNION {BinSeqs(len) : len \in 1..MaxVec}

WFuncLists ==
    {<<"all">>, <<"zscore">>, <<"runs", "bogus", "streak">>, <<"bogus">>,
     <<"rtotal", "nope", "zscore">>, <<"streak", "runs">>}

AsColumn(vec) == [k \in 1..Len(vec) |-> Num(vec[k] * Milli)]

InitRuns ==
    /\ pc = "runs:ready"
    /\ args \in [vec : BinVecs, window : 1..MaxVec, wfuncs : WFuncLists]
    /\ ret = Idle /\ model = Idle
    /\ IdlePipe

CallZscore ==
    /\ pc = "runs:ready"
    /\ ret' = zscore(args.vec)
    /\ pc' = "zscore:returned"
    /\ UNCHANGED <<args, model, pipeVars>>

CallRunsTest ==
    /\ pc = "runs:ready"
    /\ ret' = runs_test(AsColumn(args.vec), args.wfuncs, args.window)
    /\ pc' = "runs_test:returned"
    /\ UNCHANGED <<args, model, pipeVars>>

NextRuns == CallZscore \/ CallRunsTest

SpecRuns == InitRuns /\ [][NextRuns]_vars

(* C9: for every window of a binary sequence zscore returns a value without
   raising; it returns exactly 0 when the window holds one symbol only
   (n1 = 0 or n2 = 0) and when the variance denominator
   (n1+n2)^2 (n1+n2-1) is 0 (a window of length 1); otherwise, where sigma
   is not 0, it returns (observed_runs - (2 n1 n2/(n1+n2) + 1)) / sigma. *)
C9_ZscoreNeverRaises ==
    pc = "zscore:returned" =>
        LET vec == args.vec
            n1 == count_nonzero(vec)
            n2 == Len(vec) - n1
            n  == n1 + n2
            degenerate == n1 = 0 \/ n2 = 0 \/ n * n * (n - 1) = 0
            sigma2num == 2 * n1 * n2 * (2 * n1 * n2 - n1 - n2)
            d == runs(vec) * n - 2 * n1 * n2 - n
        IN  /\ ret.exc = ""
            /\ degenerate => ret = FloatZero
            /\ (~degenerate /\ sigma2num # 0) =>
                   /\ ret.sign = Sign(d)
                   /\ ret.num * sigma2num = ret.den * d * d * (n - 1)

-----------------------------------------------------------------------------
(* SpecNum: get_numerical_features on every small column *)

NumRows == 3

NumCells == {NaN, Num(0 - Milli), Num(0), Num(Milli), Num(2 * Milli), Num(3 * Milli)}

(* the columns pandas can hold under a data type: an int64 or bool column has
   no missing value, a bool column holds 0 and 1 only *)
ColumnOfType(col, dt) ==
    CASE dt = "int64" -> \A k \in DOMAIN col : ~IsNaN(col[k])
      [] dt = "bool"  -> \A k \in DOMAIN col : ~IsNaN(col[k]) /\ col[k].n \in {0, Milli}
      [] OTHER -> TRUE

NormalTests ==
    {[exc |-> "", nan |-> FALSE, pvalue |-> p] : p \in {10, 50, 51, 900}}
    \cup {[exc |-> "", nan |-> TRUE, pvalue |-> 0],
          [exc |-> "ValueError", nan |-> FALSE, pvalue |-> 0]}

InitNum ==
    /\ pc = "numerical:ready"
    /\ args \in [feature : [1..NumRows -> NumCells],
                 dt : {"float64", "int64", "bool", "object"},
                 logt : BOOLEAN, plevel : {50}, test : NormalTests]
    /\ ColumnOfType(args.feature, args.dt)
    /\ ret = Idle /\ model = Idle
    /\ IdlePipe

CallNumerical ==
    /\ pc = "numerical:ready"
    /\ ret' = get_numerical_features(args.feature, args.dt, args.logt,
                                     args.plevel, args.test)
    /\ pc' = "numerical:returned"
    /\ UNCHANGED <<args, model, pipeVars>>

NextNum == CallNumerical

SpecNum == InitNum /\ [][NextNum]_vars

(* C5: when get_numerical_features returns, its result is the natural
   logarithm of the imputed column if and only if log-transform is enabled,
   every imputed value is strictly positive and the normality test's p-value
   is <= the threshold; in every other case it is the imputed column
   unchanged, so no logarithm of a zero or negative value is taken. *)
C5_LogIffThreeConditions ==
    (pc = "numerical:returned" /\ ret.exc = "") =>
        LET imp == impute_values(<<args.feature>>, args.dt).cols
            cond == /\ args.logt
                    /\ \A c \in 1..Len(imp) : \A k \in 1..Len(imp[c]) : imp[c][k] > 0
                    /\ ~args.test.nan /\ args.test.pvalue <= args.plevel
        IN  /\ cond => ret.cols = LogCols(imp)
            /\ ~cond => ret.cols = imp
            /\ \A c \in 1..Len(ret.cols) : \A k \in 1..Len(ret.cols[c]) :
                   ret.cols[c][k] # NonFinite

C5_Witness ==
    /\ pc = "numerical:returned" /\ ret.exc = ""
    /\ args.logt /\ args.test.pvalue = args.plevel
    /\ \E k \in 1..NumRows : IsNaN(args.feature[k])
    /\ ret.cols # impute_values(<<args.feature>>, args.dt).cols

-----------------------------------------------------------------------------
(* SpecText: get_text_features on every small text column *)

TextRows == 3

TextCells == {NaN, Str("ab"), Str("cd ab"), Str("ab cd ef"), Str("x"), Str("")}

InitText ==
    /\ pc = "text:ready"
    /\ args \in [feature : [1..TextRows -> TextCells],
                 vectorize : BOOLEAN, ngrams_max : {1, 2}]
    /\ ret = Idle /\ model = Idle
    /\ IdlePipe

CallText ==
    /\ pc = "text:ready"
    /\ ret' = get_text_features(args.feature, args.vectorize, args.ngrams_max)
    /\ pc' = "text:returned"
    /\ UNCHANGED <<args, model, pipeVars>>

NextText == CallText

SpecText == InitText /\ [][NextText]_vars

(* C6: the text transform never raises for any text column, also one with
   missing values or one on which vectorization fails; with vectorization
   enabled and succeeding it returns the TF-IDF block, with vectorization
   enabled and failing (empty vocabulary) or disabled it returns the
   factorization of the null-filled column; the result has one row per input
   row and no missing value. *)
C6_TextNeverRaises ==
    pc = "text:returned" =>
        LET filled == [k \in 1..TextRows |->
                          IF IsNaN(args.feature[k]) THEN Str(NULLTEXT)
                          ELSE args.feature[k]]
            vocab == Vocabulary(filled, args.ngrams_max)
        IN  /\ ret.exc = ""
            /\ (args.vectorize /\ vocab # <<>>) => Len(ret.cols) = Len(vocab)
            /\ (~args.vectorize \/ vocab = <<>>) => ret.cols = <<factorize(filled)>>
            /\ \A c \in 1..Len(ret.cols) :
                   /\ Len(ret.cols[c]) = TextRows
                   /\ \A k \in 1..TextRows : ret.cols[c][k] >= 0

-----------------------------------------------------------------------------
(* SpecFactors: get_factors on every small categorical column *)

FRows == 3

(* model.specs['sentinel'] and model.specs['target_value'] of the runs *)
Sentinel == 0 - Milli

TargetValue == 0 + 1

FactorCells(dtype) ==
    IF dtype = "float64" THEN {NaN, Num(1500), Num(0 - 1500)}
    ELSE {NaN, Str("a"), Str("b")}

FactorEncoders ==
    {"factorize", "onehot", "ordinal", "binary", "helmert", "sumcont",
     "polynomial", "backdiff", "bogus"}

(* split: the split point; y: the labels of the training rows *)
InitFactors ==
    /\ pc = "factors:ready"
    /\ \E dtype \in {"object", "float64"}, split \in 1..(FRows - 1) :
          args \in [col : [1..FRows -> FactorCells(dtype)], dtype : {dtype},
                    encoder : FactorEncoders, classify : BOOLEAN,
                    split : {split}, y : [1..split -> {0, 1}]]
    /\ ret = Idle /\ model = Idle
    /\ IdlePipe

CallFactors ==
    /\ pc = "factors:ready"
    /\ ret' = get_factors(args.col, args.dtype, args.encoder, 1, Sentinel,
                          TargetValue, SubSeq(args.col, 1, args.split), args.y,
                          args.classify)
    /\ pc' = "factors:returned"
    /\ UNCHANGED <<args, model, pipeVars>>

NextFactors == CallFactors

SpecFactors == InitFactors /\ [][NextFactors]_vars

(* C4: in the target-rate column of a classification task every row whose
   category value does not occur in the training partition (a missing value
   equals no value) holds exactly the sentinel, every row whose category
   occurs there holds that category's training positive-rate, and no row is
   left missing. *)
C4_SentinelForUnseen ==
    (pc = "factors:returned" /\ ret.exc = "" /\ ret.rate) =>
        LET rate == ret.cols[Len(ret.cols)]
            seen(k) == {j \in 1..args.split :
                           ~IsNaN(args.col[j]) /\ args.col[j] = args.col[k]}
            pos(k) == {j \in seen(k) : args.y[j] = TargetValue}
        IN  /\ Len(rate) = FRows
            /\ \A k \in 1..FRows :
                  /\ rate[k] # NonFinite
                  /\ seen(k) = {} => rate[k] = Sentinel
                  /\ seen(k) # {} =>
                        rate[k] = (Cardinality(pos(k)) * Milli) \div Cardinality(seen(k))

C4_Witness ==
    /\ pc = "factors:returned" /\ ret.exc = "" /\ ret.rate
    /\ \E k \in (args.split + 1)..FRows :
          /\ ~IsNaN(args.col[k])
          /\ \A j \in 1..args.split : args.col[j] # args.col[k]
          /\ ret.cols[Len(ret.cols)][k] = Sentinel
    /\ \E k \in 1..FRows : ret.cols[Len(ret.cols)][k] = Milli \div 2

-----------------------------------------------------------------------------
(* SpecSelect: select_features on every small pair of matrices *)

SCols == 3

(* the label vectors of the training rows; the training matrix has one row
   per label *)
SelectLabels == {<<0, 1>>, <<1, 0>>, <<1, 1>>, <<0, 1, 1>>}

(* test matrices of one row *)
TestMatrices ==
    {[j \in 1..SCols |-> <<0>>],
     [j \in 1..SCols |-> <<(j % 2) * Milli>>],
     [j \in 1..SCols |-> <<((j + 1) % 2) * Milli>>]}

InitSelect ==
    /\ pc = "select:ready"
    /\ \E y \in SelectLabels :
          model \in [X_train : [1..SCols -> [1..Len(y) -> {0, Milli}]],
                     X_test : TestMatrices,
                     y_train : {y},
                     specs : [fs_percentage : {0, 34, 50, 100}]]
    /\ args = model
    /\ ret = Idle
    /\ IdlePipe

CallSelect ==
    /\ pc = "select:ready"
    /\ model' = select_features(model)
    /\ ret' = model'
    /\ pc' = "select:returned"
    /\ UNCHANGED <<args, pipeVars>>

NextSelect == CallSelect

SpecSelect == InitSelect /\ [][NextSelect]_vars

(* the positions the selector keeps, from the training matrix and labels alone *)
TrainSupport ==
    SupportMask(ScoreFunc(args.X_train, args.y_train), args.specs.fs_percentage)

(* C7: after select_features model.X_train and model.X_test are the input
   matrices cut to the one support mask fitted on the training matrix and
   training labels: both have the same column count, at most the input's, the
   kept columns are the input columns at the mask's positions in their
   order, row counts are unchanged, and the mask does not read the test
   matrix. *)
C7_OneMaskFromTrain ==
    pc = "select:returned" =>
        LET keep == SelectSeq([j \in 1..SCols |-> j], LAMBDA j : TrainSupport[j])
        IN  /\ Len(model.X_train) = Len(model.X_test)
            /\ Len(model.X_train) = Len(keep)
            /\ Len(keep) <= SCols
            /\ \A c \in 1..Len(keep) :
                  /\ model.X_train[c] = args.X_train[keep[c]]
                  /\ model.X_test[c] = args.X_test[keep[c]]
                  /\ Len(model.X_train[c]) = Len(args.y_train)
                  /\ Len(model.X_test[c]) = Len(args.X_test[keep[c]])
            /\ \A c \in 1..(Len(keep) - 1) : keep[c] < keep[c + 1]

(* a proper selection: some column is dropped, some kept, and the test matrix
   alone would have chosen other columns *)
C7_Witness ==
    /\ pc = "select:returned"
    /\ 0 < Len(model.X_train) /\ Len(model.X_train) < SCols
    /\ Len(model.X_test) = Len(model.X_train)
    /\ SupportMask(ScoreFunc(args.X_test, args.y_train), args.specs.fs_percentage)
         # TrainSupport

-----------------------------------------------------------------------------
(* Spec: one call of create_features(X, model, split_point, y_train), a step
   per statement group.  args keeps the dataset as the caller passed it. *)

NRows == 4

MaxCols == 2

PoolNames == {"cat", "flt", "bin", "txt", "when", "flag"}

TextOf(r) ==
    CASE r = 1 -> Str("ab") [] r = 2 -> NaN [] r = 3 -> Str("cd ab")
      [] r = 4 -> Str("ab cd ef") [] OTHER -> Str("x")

PoolCells(name, r) ==
    CASE name = "cat"  -> Str(<<"a", "b", "c">>[((r - 1) % 3) + 1])
      [] name = "flt"  -> IF r = 2 THEN NaN ELSE Num(r * Milli + 500)
      [] name = "bin"  -> Num((r % 2) * Milli)
      [] name = "txt"  -> TextOf(r)
      [] name = "when" -> Num(r * Milli)
      [] name = "flag" -> Num(IF r = 1 THEN Milli ELSE 0)

PoolType(name) ==
    CASE name \in {"cat", "txt"} -> "object"
      [] name = "flt"  -> "float64"
      [] name = "bin"  -> "int64"
      [] name = "when" -> "datetime64[ns]"
      [] name = "flag" -> "bool"

PoolColumn(name) ==
    [name |-> name, dtype |-> PoolType(name), cells |-> [r \in 1..NRows |-> PoolCells(name, r)]]

(* the datasets: up to MaxCols different columns, in any order *)
Datasets ==
    {[c \in 1..Len(q) |-> PoolColumn(q[c])] :
        q \in {q \in UNION {[1..n -> PoolNames] : n \in 1..MaxCols} :
                 \A a, b \in 1..Len(q) : a # b => q[a] # q[b]}}

GenDatasets == {<<PoolColumn("flt")>>, <<PoolColumn("flt"), PoolColumn("bin")>>}

BaseSpecs ==
    [clustering |-> FALSE, counts |-> FALSE, dummy_limit |-> 3, encoder |-> "ordinal",
     isomap |-> FALSE, logtransform |-> FALSE, model_type |-> "classification",
     ngrams_max |-> 2, numpy |-> FALSE, pca |-> FALSE, pvalue_level |-> 50,
     rounding |-> 1, scaler_option |-> FALSE, scaler_type |-> "standard",
     scipy |-> FALSE, sentinel |-> 0 - Milli, target_value |-> 1, treatments |-> <<>>,
     tsne |-> FALSE, vectorize |-> TRUE,
     cluster_min |-> 2, cluster_max |-> 3, cluster_inc |-> 1,
     pca_min |-> 1, pca_max |-> 2, pca_inc |-> 1,
     iso_components |-> 2, tsne_components |-> 2]

Treatment(column, func, wfuncs) == [column |-> column, func |-> func, wfuncs |-> wfuncs, window |-> 2]

TreatmentConfigs ==
    {<<>>,
     <<Treatment("bin", "runs_test", <<"runs", "bogus", "zscore">>)>>,
     <<Treatment("bin", "runs_test", <<"bogus">>)>>,
     <<Treatment("bin", "split_to_letters", <<>>)>>,
     <<Treatment("bin", "detrend", <<>>)>>}

ScalerConfigs == {<<FALSE, "standard">>, <<TRUE, "standard">>, <<TRUE, "minmax">>, <<TRUE, "robust">>}

(* configurations that vary how a column is dispatched and encoded *)
DispatchSpecs ==
    {[BaseSpecs EXCEPT !.dummy_limit = d, !.encoder = e, !.model_type = mt,
                       !.vectorize = v, !.logtransform = ~v] :
        d \in {0, 2, 3, 9}, e \in {"factorize", "ordinal", "helmert", "bogus"},
        mt \in {"classification", "regression"}, v \in BOOLEAN}

(* configurations that vary the treatments and the scaler *)
TreatSpecs ==
    {[BaseSpecs EXCEPT !.treatments = t, !.scaler_option = sc[1], !.scaler_type = sc[2],
                       !.dummy_limit = d, !.numpy = g, !.clustering = g, !.pca = g,
                       !.isomap = g, !.tsne = g] :
        t \in TreatmentConfigs, sc \in ScalerConfigs, d \in {0, 3}, g \in BOOLEAN}

(* configurations that vary the generators *)
GenSpecs ==
    {[BaseSpecs EXCEPT !.dummy_limit = 0, !.counts = k, !.scaler_option = s,
                       !.numpy = g[1], !.scipy = g[2], !.clustering = g[3],
                       !.pca = g[4], !.isomap = g[5], !.tsne = g[6]] :
        k \in BOOLEAN, s \in BOOLEAN, g \in [1..6 -> BOOLEAN]}

(* a scenario is <<X, model.specs, y_train>>; the labels <<0, 0>> leave the
   training rows without the target value *)
Scenarios ==
    ((Datasets \X (DispatchSpecs \cup TreatSpecs)) \X {<<1, 0>>})
    \cup ((GenDatasets \X GenSpecs) \X {<<1, 0>>})
    \cup ((Datasets \X {BaseSpecs}) \X {<<0, 0>>})

Init ==
    /\ pc = "start"
    /\ \E sc \in Scenarios :
          /\ X = sc[1][1] /\ specs = sc[1][2] /\ y_train = sc[2]
          /\ args = [X |-> sc[1][1], split_point |-> Len(sc[2])]
    /\ fi = 0 /\ log = <<>>
    /\ all_features = Idle /\ stacked = Idle /\ base_features = Idle
    /\ err = Idle /\ ret = Idle /\ model = Idle

Raise(exc, excargs) ==
    /\ pc' = "error"
    /\ err' = [type |-> exc, args |-> excargs]
    /\ UNCHANGED <<fi, all_features, stacked, base_features, ret>>

(* lines 698-713 *)
CountFeatures ==
    /\ pc = "start"
    /\ X' = IF specs.counts THEN count_features(X) ELSE X
    /\ all_features' = zeros(Rows(X'))
    /\ fi' = 1
    /\ pc' = "columns"
    /\ UNCHANGED <<specs, y_train, stacked, base_features, err, log, args, ret, model>>

ColumnDone(r) ==
    /\ X' = r.X
    /\ log' = log \o r.log
    /\ IF r.exc # "" THEN Raise(r.exc, r.args)
       ELSE /\ all_features' = r.m
            /\ fi' = fi + 1
            /\ UNCHANGED <<pc, stacked, base_features, err, ret>>
    /\ UNCHANGED <<specs, y_train, args, model>>

(* lines 715-737, one column *)
ColumnStep ==
    /\ pc = "columns" /\ fi <= Len(X)
    /\ ColumnDone(column_body(X, fi, specs, SubSeq(X[fi].cells, 1, args.split_point), y_train, all_features))

(* line 738 *)
EndLoop ==
    /\ pc = "columns" /\ fi > Len(X)
    /\ all_features' = delete_first(all_features)
    /\ stacked' = all_features'
    /\ pc' = "scale"
    /\ UNCHANGED <<X, specs, y_train, fi, base_features, err, log, args, ret, model>>

ScaleDone(r) ==
    /\ log' = log \o r.log
    /\ IF r.exc # "" THEN Raise(r.exc, <<>>)
       ELSE /\ all_features' = r.m
            /\ base_features' = r.m
            /\ pc' = "numpy"
            /\ UNCHANGED <<fi, stacked, err, ret>>
    /\ UNCHANGED <<X, specs, y_train, args, model>>

(* lines 744-757 *)
Scale == pc = "scale" /\ ScaleDone(scale_features(all_features, specs))

Generate(here, r, next) ==
    /\ pc = here
    /\ IF r.exc # "" THEN Raise(r.exc, <<>>)
       ELSE /\ all_features' = r.m
            /\ pc' = next
            /\ UNCHANGED <<fi, stacked, base_features, err, ret>>
    /\ UNCHANGED <<X, specs, y_train, log, args, model>>

NumpyFeatures == Generate("numpy", numpy_step(all_features, base_features, specs), "scipy")

ScipyFeatures == Generate("scipy", scipy_step(all_features, base_features, specs), "cluster")

Clusters == Generate("cluster", cluster_step(all_features, base_features, specs), "pca")

PcaFeatures == Generate("pca", pca_step(all_features, base_features, specs), "isomap")

IsomapFeatures == Generate("isomap", isomap_step(all_features, base_features, specs), "tsne")

TsneFeatures == Generate("tsne", tsne_step(all_features, base_features, specs), "return")

(* line 803 *)
Return ==
    /\ pc = "return"
    /\ ret' = all_features
    /\ pc' = "done"
    /\ UNCHANGED <<X, specs, y_train, fi, all_features, stacked, base_features, err, log, args, model>>

Next ==
    \/ CountFeatures \/ ColumnStep \/ EndLoop \/ Scale
    \/ NumpyFeatures \/ ScipyFeatures \/ Clusters \/ PcaFeatures
    \/ IsomapFeatures \/ TsneFeatures \/ Return

Spec == Init /\ [][Next]_vars

-----------------------------------------------------------------------------
(* Properties of create_features *)

AfterLoop == {"scale", "numpy", "scipy", "cluster", "pca", "isomap", "tsne", "return"}

Rectangular(a, n) == a.rows = n /\ \A c \in 1..Len(a.cols) : Len(a.cols[c].v) = n

(* C1: whenever create_features gets past the column loop, and when it
   returns, the feature matrix has exactly the rows of the dataset X it was
   given: after the loop, after scaling and after each generator's block
   every column of the matrix has one entry per dataset row. *)
C1_RowsPreserved ==
    /\ pc \in AfterLoop => Rectangular(all_features, Rows(args.X))
    /\ pc = "done" => /\ Rectangular(ret, Rows(args.X))
                      /\ Rectangular(base_features, Rows(args.X))

C1_Witness ==
    /\ pc = "done"
    /\ specs.treatments # <<>> /\ specs.scaler_option /\ specs.numpy /\ specs.tsne
    /\ Len(ret.cols) > Len(base_features.cols)
    /\ Len(base_features.cols) > 1
    /\ ret.rows = NRows

(* the transform the claim names for a column: cardinality first, then type *)
Precedence(col) ==
    IF Cardinality(Range(col.cells)) <= specs.dummy_limit THEN "factor"
    ELSE IF col.dtype \in {"float64", "int64", "bool"} THEN "numerical"
    ELSE IF col.dtype = "object" THEN "text"
    ELSE "TypeError"

(* column j as it was before any transform touched it *)
Untouched(j) == IF j <= Len(args.X) THEN args.X[j] ELSE X[j]

IsDefault(e) == e.what \in {"factor", "numerical", "text"}

Defaults == SelectSeq(log, IsDefault)

(* C2: the default transforms are invoked for the columns in dataset order,
   one per column, each the one given by the precedence cardinality <=
   dummy_limit, then float64/int64/bool, then object, whether or not the
   column has a treatment; the loop ends with every column transformed, and
   the unrecognized-type error is raised exactly for a column that no rule
   matches, leaving no matrix. *)
C2_DispatchByPrecedence ==
    pc \in {"columns", "error", "done"} \cup AfterLoop =>
       /\ \A j \in 1..Len(Defaults) :
             /\ Defaults[j].fnum = j
             /\ Defaults[j].fname = X[j].name
             /\ Defaults[j].what = Precedence(Untouched(j))
       /\ pc = "columns" => Len(Defaults) = fi - 1
       /\ pc \in AfterLoop \cup {"done"} => Len(Defaults) = Len(X)
       /\ (pc = "error" /\ err.type = "TypeError" /\ err.args # <<>>)
             => Len(Defaults) = fi - 1 /\ Precedence(Untouched(fi)) = "TypeError"
       /\ (pc = "columns" /\ fi > 1) => Precedence(Untouched(fi - 1)) # "TypeError"

C2_Witness ==
    /\ pc = "done"
    /\ Len(X) > 1
    /\ \E j \in 1..Len(log) : log[j].what = "special treatment" /\ log[j].fnum = 1
    /\ \E j \in 1..Len(log) : log[j].what = "factor" /\ log[j].fnum = 1
    /\ \E j \in 1..Len(log) : log[j].what \in {"numerical", "text"}

(* the position at which the value of row r first occurs in the column *)
FirstAt(cells, r) == SetMin({k \in 1..r : cells[k] = cells[r]})

(* the first-seen code of row r: the number of distinct values seen before *)
FirstSeenCode(cells, r) == Cardinality({cells[k] : k \in 1..(FirstAt(cells, r) - 1)})

FactorColumns(a, fname) ==
    {c \in 1..Len(a.cols) : a.cols[c].tag.kind = "factor" /\ a.cols[c].tag.of = fname}

(* C3: with encoder = factorize the returned matrix holds, for every column
   of cardinality <= dummy_limit, exactly one column, whose entries are the
   first-seen codes 0 .. distinct_count-1 of the column's values. *)
C3_FactorizeCodes ==
    (pc = "done" /\ specs.encoder = "factorize" /\ ~specs.scaler_option) =>
       \A j \in 1..Len(args.X) :
          Precedence(args.X[j]) = "factor" =>
             /\ Cardinality(FactorColumns(ret, args.X[j].name)) = 1
             /\ \A c \in FactorColumns(ret, args.X[j].name) :
                   \A r \in 1..Rows(args.X) :
                      ret.cols[c].v[r] = FirstSeenCode(args.X[j].cells, r) * Milli

(* the treatment of the column the loop is at, if it has one *)
AtTreated == pc = "columns" /\ fi <= Len(X) /\ TreatmentsOf(specs, X[fi].name) # {}

Recognized(w) == w \in Range(all_funcs)

(* the statistics of a treatment that runs_test knows *)
KnownFuncs(fparams) ==
    IF "all" \in Range(fparams.wfuncs) THEN fparams.wfuncs
    ELSE SelectSeq(fparams.wfuncs, Recognized)

(* the pass for column fi had the configuration named no treatment at all *)
PassUntreated ==
    column_body(X, fi, [specs EXCEPT !.treatments = <<>>], SubSeq(X[fi].cells, 1, args.split_point), y_train, all_features)

(* the pass for column fi had its treatment named only the statistics that
   runs_test knows *)
PassKnownOnly ==
    column_body(X, fi, [specs EXCEPT !.treatments = <<[TreatmentFor(specs, X[fi].name) EXCEPT !.wfuncs = KnownFuncs(TreatmentFor(specs, X[fi].name))]>>], SubSeq(X[fi].cells, 1, args.split_point), y_train, all_features)

Outcome(r) == IF r.exc # "" THEN pc' = "error" /\ err'.type = r.exc
              ELSE pc' = "columns" /\ all_features' = r.m

UnknownScaler == specs.scaler_option /\ specs.scaler_type \notin {"standard", "minmax"}

(* an unknown scaler leaves the matrix of the loop as the base matrix and the
   pipeline goes on to the generators *)
ScalerSkipped ==
    (pc = "scale" /\ UnknownScaler) =>
       pc' = "numpy" /\ all_features' = all_features /\ base_features' = all_features

(* an unknown statistic is passed over: the pass goes as if the treatment
   had named the known statistics only *)
StatisticSkipped ==
    (AtTreated /\ TreatmentFor(specs, X[fi].name).func = "runs_test"
               /\ KnownFuncs(TreatmentFor(specs, X[fi].name)) # <<>>)
       => Outcome(PassKnownOnly)

(* C8 (as amended): an unknown scaler name leaves the base matrix unscaled
   and an unknown statistic name of runs_test adds no column while the known
   names add theirs, the pipeline going on in both cases; but a treatment
   that names no known statistic at all makes runs_test return an empty
   frame that the stacking rejects (ValueError), and a treatment naming a
   function the module does not define raises NameError: in these two cases
   create_features stops at that column and returns no matrix. *)
C8_UnrecognizedOptions ==
    [][/\ ScalerSkipped
       /\ StatisticSkipped
       /\ (AtTreated /\ TreatmentFor(specs, X[fi].name).func = "runs_test"
                     /\ KnownFuncs(TreatmentFor(specs, X[fi].name)) = <<>>)
             => pc' = "error" /\ err'.type = "ValueError"
       /\ (AtTreated /\ TreatmentFor(specs, X[fi].name).func \notin ModuleNames)
             => pc' = "error" /\ err'.type = "NameError"]_vars

C8_Witness ==
    /\ pc = "done"
    /\ UnknownScaler /\ base_features = stacked
    /\ \E k \in 1..Len(specs.treatments) :
          /\ specs.treatments[k].func = "runs_test"
          /\ \E w \in Range(specs.treatments[k].wfuncs) : ~Recognized(w)
          /\ Cardinality({c \in 1..Len(ret.cols) : ret.cols[c].tag.kind = "treatment"}) = 2

(* C8 as stated: each of the three cases is non-fatal; with an unknown
   statistic or an unknown treatment name the pass goes on without that
   contribution. *)
C8_AllNonFatal ==
    [][/\ ScalerSkipped
       /\ (AtTreated /\ TreatmentFor(specs, X[fi].name).func = "runs_test")
             => Outcome(PassKnownOnly) /\ (PassUntreated.exc = "" => pc' = "columns")
       /\ (AtTreated /\ TreatmentFor(specs, X[fi].name).func \notin ModuleNames)
             => Outcome(PassUntreated)]_vars

GeneratorBlocks ==
       (IF specs.numpy THEN create_numpy_features(base_features).m.cols ELSE <<>>)
    \o (IF specs.scipy THEN create_scipy_features(base_features).m.cols ELSE <<>>)
    \o (IF specs.clustering THEN create_clusters(base_features, specs).m.cols ELSE <<>>)
    \o (IF specs.pca THEN create_pca_features(base_features, specs).m.cols ELSE <<>>)
    \o (IF specs.isomap THEN create_isomap_features(base_features, specs).m.cols ELSE <<>>)
    \o (IF specs.tsne THEN create_tsne_features(base_features, specs).m.cols ELSE <<>>)

(* C10: the returned matrix is the base matrix (the stacked columns, scaled
   when scaling is on) followed by the blocks of the enabled generators in
   the order aggregates, statistical tests, clustering, PCA, Isomap, t-SNE,
   each block being what its generator makes of the base matrix alone. *)
C10_BlocksFromBaseInOrder ==
    pc = "done" =>
       /\ base_features = scale_features(stacked, specs).m
       /\ ret.cols = base_features.cols \o GeneratorBlocks

C10_Witness ==
    /\ pc = "done"
    /\ specs.scaler_option
    /\ specs.numpy /\ specs.scipy /\ specs.clustering
    /\ specs.pca /\ specs.isomap /\ specs.tsne
    /\ Len(ret.cols) > Len(base_features.cols) + 9

(* C11: the call leaves the caller's dataset as it was: when create_features
   returns, X has the columns and the cells (missing ones included) it had
   when the call was made. *)
C11_InputUnchanged == pc = "done" => X = args.X

ColumnsOf(a, fname) == {c \in 1..Len(a.cols) : a.cols[c].tag.of = fname}

(* the cells of row r of the caller's dataset that are missing *)
MissingInRow(r) == Cardinality({c \in 1..Len(args.X) : IsNaN(args.X[c].cells[r])})

(* the cells of row r of the caller's dataset that equal the integer i *)
EqualInRow(r, i) ==
    Cardinality({c \in 1..Len(args.X) :
                    args.X[c].cells[r].t = "num" /\ args.X[c].cells[r].n = i * Milli})

(* C12: with counts enabled (and the matrix left unscaled) the returned
   matrix holds a column with the number of missing values of each row and,
   for each integer 0..9, a column with the number of cells of the row's
   original columns equal to it, and these 11 columns stand to the left of
   every column made from an original dataset column. *)
C12_CountBlockFirst ==
    (pc = "done" /\ specs.counts /\ ~specs.scaler_option) =>
       /\ \A c \in ColumnsOf(ret, "nan_count") :
             \A r \in 1..ret.rows : ret.cols[c].v[r] = MissingInRow(r) * Milli
       /\ \A i \in 1..Len(count_names) :
             /\ Cardinality(ColumnsOf(ret, count_names[i])) = 1
             /\ \A c \in ColumnsOf(ret, count_names[i]) :
                   \A r \in 1..ret.rows : ret.cols[c].v[r] = EqualInRow(r, i - 1) * Milli
       /\ Cardinality(ColumnsOf(ret, "nan_count")) = 1
       /\ \A c \in ColumnsOf(ret, "nan_count"), j \in 1..Len(args.X) :
             \A d \in ColumnsOf(ret, args.X[j].name) : c < d
       /\ \A i \in 1..Len(count_names), j \in 1..Len(args.X) :
             \A c \in ColumnsOf(ret, count_names[i]) :
                \A d \in ColumnsOf(ret, args.X[j].name) : c < d

(* the statistics a call of runs_test is asked for and knows, in the order
   asked *)
Requested(wfuncs) ==
    IF "all" \in Range(wfuncs) THEN all_funcs ELSE SelectSeq(wfuncs, Recognized)

(* the value the claim gives row k of the column of statistic w *)
RowStatistic(w, vec, window, k) ==
    IF k < window THEN 0
    ELSE FloatMilli(ApplyFunc(w, [j \in 1..window |-> vec[k - window + j] * Milli]))

(* C13: runs_test returns one row per input row and one column per known
   requested statistic, in the order requested ('all': runs, streak, rtotal,
   zscore); a row before the window is full is 0 in every column and every
   later row holds the statistic of the window ending at that row. *)
C13_RollingColumns ==
    pc = "runs_test:returned" =>
       /\ ret.exc = ""
       /\ ret.rows = Len(args.vec)
       /\ Len(ret.cols) = Len(Requested(args.wfuncs))
       /\ \A c \in 1..Len(ret.cols) :
             /\ Len(ret.cols[c]) = Len(args.vec)
             /\ \A k \in 1..Len(args.vec) :
                   ret.cols[c][k] = Num(RowStatistic(Requested(args.wfuncs)[c], args.vec, args.window, k))

(* the part of C13 that the code keeps: whenever runs_test returns a frame
   with a column, the frame is as the claim says *)
C13_WhenItReturnsColumns ==
    (pc = "runs_test:returned" /\ ret.exc = "" /\ ret.cols # <<>>) =>
       /\ ret.rows = Len(args.vec)
       /\ Len(ret.cols) = Len(Requested(args.wfuncs))
       /\ \A c \in 1..Len(ret.cols) :
             \A k \in 1..Len(args.vec) :
                ret.cols[c][k] = Num(RowStatistic(Requested(args.wfuncs)[c], args.vec, args.window, k))

-----------------------------------------------------------------------------
(* SpecStats: one call of rtotal, runs, streak or zscore on a binary window
   (lines 117-162). *)

(* the windows of the documented examples: alternating, constant, and one
   with few changes of value *)
ExampleWindows == {<<1, 0, 1, 0, 1, 0, 1, 0>>, <<1, 1, 1, 1>>, <<1, 1, 1, 1, 1, 1, 0, 0>>}

InitStats ==
    /\ pc = "stats:ready"
    /\ args \in [vec : BinVecs \cup ExampleWindows]
    /\ ret = Idle /\ model = Idle
    /\ IdlePipe

Returned(func, value) ==
    /\ pc = "stats:ready"
    /\ ret' = [func |-> func, value |-> value]
    /\ pc' = "stats:returned"
    /\ UNCHANGED <<args, model, pipeVars>>

CallRtotal == Returned("rtotal", rtotal(args.vec))

CallRuns == Returned("runs", runs(args.vec))

CallStreak == Returned("streak", streak(args.vec))

CallZ == Returned("zscore", zscore(args.vec))

NextStats == CallRtotal \/ CallRuns \/ CallStreak \/ CallZ

SpecStats == InitStats /\ [][NextStats]_vars

(* the number of maximal blocks of equal consecutive values *)
BlockCount(vec) == 1 + Cardinality({k \in 2..Len(vec) : vec[k] # vec[k - 1]})

(* the length of the last such block *)
LastBlock(vec) ==
    SetMax({m \in 1..Len(vec) : \A j \in (Len(vec) - m + 1)..Len(vec) : vec[j] = vec[Len(vec)]})

Zeros(vec) == Cardinality({k \in 1..Len(vec) : vec[k] = 0})

(* the expected number of runs exceeds the observed one: 2 n1 n2/(n1+n2) + 1 > runs *)
FewerRunsThanExpected(vec) ==
    BlockCount(vec) * Len(vec) < 2 * Zeros(vec) * (Len(vec) - Zeros(vec)) + Len(vec)

(* C14: on every non-empty binary window runs is the number of maximal
   blocks of equal consecutive values, streak the length of the last block
   and rtotal the non-zero elements minus the zero ones; the alternating
   window of length 8 has 8 runs and a positive z-score, the constant window
   <<1,1,1,1>> has 1 run and z-score 0, and a window of both symbols (longer
   than 2) with fewer runs than expected has a negative z-score. *)
C14_WindowStatistics ==
    pc = "stats:returned" =>
       /\ ret.func = "runs" =>
             /\ ret.value = BlockCount(args.vec)
             /\ args.vec = <<1, 0, 1, 0, 1, 0, 1, 0>> => ret.value = 8
             /\ args.vec = <<1, 1, 1, 1>> => ret.value = 1
       /\ ret.func = "streak" => ret.value = LastBlock(args.vec)
       /\ ret.func = "rtotal" => ret.value = (Len(args.vec) - Zeros(args.vec)) - Zeros(args.vec)
       /\ ret.func = "zscore" =>
             /\ args.vec = <<1, 0, 1, 0, 1, 0, 1, 0>> => ret.value.exc = "" /\ ret.value.sign = 1
             /\ args.vec = <<1, 1, 1, 1>> => ret.value.exc = "" /\ ret.value.sign = 0
             /\ (FewerRunsThanExpected(args.vec) /\ Len(args.vec) > 2
                 /\ Zeros(args.vec) \notin {0, Len(args.vec)})
                   => ret.value.exc = "" /\ ret.value.sign = 0 - 1

C14_Witness ==
    /\ pc = "stats:returned"
    /\ args.vec = <<1, 1, 1, 1, 1, 1, 0, 0>>
    /\ ret.func = "zscore" /\ ret.value.sign = 0 - 1 /\ FewerRunsThanExpected(args.vec)


(* ---------------------------------------------------------------------- *)
(* Fatal errors.                                                          *)

(* the ways an error text could point at column i: its name, or its index
   counted from zero or from one *)
IndexTexts == <<"0", "1", "2", "3", "4", "5", "6", "7", "8", "9", "10", "11", "12", "13", "14", "15", "16">>

ColumnIds(i) == {X[i].name, IndexTexts[i], IndexTexts[i + 1]}

(* an error create_features or get_factors raises itself, at column fi *)
FatalError == pc = "error" /\ err.args # <<>>

ViolatingValue == IF err.type = "TypeError" THEN X[fi].dtype ELSE specs.encoder

(* what the raise statements of lines 735 and 404 do deliver: the run stops
   at the column, no matrix is returned, and the error carries the
   violating value *)
C15_AbortsWithValue ==
    FatalError =>
       /\ ret = Idle
       /\ err.type \in {"TypeError", "ValueError"}
       /\ ViolatingValue \in Range(err.args)

(* C15: a fatal error (unrecognized column type, unknown encoder) stops the
   run without returning a matrix, and the error raised identifies both the
   offending column, by name or index, and the violating value. *)
C15_FatalErrorsNameColumnAndValue ==
    FatalError =>
       /\ ret = Idle
       /\ ViolatingValue \in Range(err.args)
       /\ \E k \in 1..Len(err.args) : err.args[k] \in ColumnIds(fi)

(* ---------------------------------------------------------------------- *)
(* float_factor and its use by get_factors (lines 360-383), applied to a
   column of two cells.                                                   *)

MaxRounding == 3

FloatMillis == {0, 4, 50, 125, 150, 165, 500, 1500, 2500, 12345}

Neg(c) == IF IsNaN(c) THEN c ELSE Num(0 - c.n)

QuantCells(dtype) ==
    CASE dtype = "float64" -> {NaN} \cup {Num(v) : v \in FloatMillis}
                                    \cup {Num(0 - v) : v \in FloatMillis}
      [] dtype = "int64"   -> {Num(v * Milli) : v \in {0 - 12, 0 - 1, 0, 1, 12}}
      [] OTHER             -> {NaN, Str("a"), Str("b")}

InitFloat ==
    /\ pc = "float:ready"
    /\ \E dtype \in {"float64", "int64", "object"} :
          args \in [col : [1..2 -> QuantCells(dtype)], dtype : {dtype},
                    rounding : 0..MaxRounding]
    /\ ret = Idle /\ model = Idle
    /\ IdlePipe

(* feature.apply(float_factor, args=[rounding]), on a float column *)
CallFloatFactor ==
    /\ pc = "float:ready" /\ args.dtype = "float64"
    /\ ret' = [exc |-> "",
               value |-> [k \in 1..2 |-> float_factor(args.col[k], args.rounding)]]
    /\ pc' = "float_factor:returned"
    /\ UNCHANGED <<args, model, pipeVars>>

(* get_factors with the ordinal encoder, outside classification *)
CallGetFactors ==
    /\ pc = "float:ready"
    /\ ret' = get_factors(args.col, args.dtype, "ordinal", args.rounding, Sentinel,
                          TargetValue, args.col, <<>>, FALSE)
    /\ pc' = "get_factors:returned"
    /\ UNCHANGED <<args, model, pipeVars>>

NextFloat == CallFloatFactor \/ CallGetFactors

SpecFloat == InitFloat /\ [][NextFloat]_vars

(* the digits of a string, leading zeros dropped *)
RECURSIVE Significant(_)
Significant(s) ==
    IF Len(s) > 1 /\ s[1] = "0" THEN Significant(SubSeq(s, 2, Len(s))) ELSE s

DigitsOnly(s) == Len(s) > 0 /\ \A k \in 1..Len(s) : s[k] \in Range(DigitChars)

(* the digit characters of x written with `rounding` decimals *)
FormattedDigits(k) == SelectSeq(num2str(args.col[k], args.rounding), IsDigit)

(* the number those digits write, as a digit string; no digit writes 0 *)
Written(k) ==
    IF FormattedDigits(k) = <<>> THEN <<"0">> ELSE Significant(FormattedDigits(k))

(* C16: float_factor returns the integer that the decimal digits of the
   formatted value write (|x| scaled by 10^rounding and rounded to the
   nearest integer), 0 when the text has no digit (a missing value); two
   values whose formatted texts hold the same digits, such as x and -x, get
   the same factor; and get_factors quantizes a column this way only when
   its type is float64: there two cells share a code exactly when their
   factors agree, otherwise exactly when the cells are equal. *)
C16_FloatFactor ==
    /\ pc = "float_factor:returned" =>
          \A k \in 1..2 :
             /\ IsNaN(args.col[k]) => ret.value[k] = 0
             /\ ~IsNaN(args.col[k]) =>
                   /\ ret.value[k] >= 0
                   /\ DigitsOnly(FormattedDigits(k))
                   /\ Digits(ret.value[k]) = Significant(FormattedDigits(k))
                   /\ 2 * Abs(ret.value[k] * Milli
                              - Abs(args.col[k].n) * Pow10(args.rounding)) <= Milli
             /\ \A j \in 1..2 :
                   (FormattedDigits(j) = FormattedDigits(k) \/ args.col[j] = Neg(args.col[k]))
                      => ret.value[j] = ret.value[k]
    /\ pc = "get_factors:returned" =>
          /\ ret.exc = "" /\ Len(ret.cols) = 1
          /\ (ret.cols[1][1] = ret.cols[1][2]) <=>
                IF args.dtype = "float64"
                THEN Written(1) = Written(2)
                ELSE args.col[1] = args.col[2]

(* a value and its negative, different cells with a non-zero factor, are
   given one factor and one code *)
C16_Witness ==
    /\ pc = "float_factor:returned"
    /\ args.col[1].n > 0 /\ args.col[2] = Neg(args.col[1])
    /\ ret.value[1] = ret.value[2] /\ ret.value[1] > 0
=============================================================================
